---- MODULE Spec2Model ----
(***************************************************************************)
(* Risk-managed position lifecycle of the paper-trading bot: the risk      *)
(* manager's ledger (risk/risk_manager.py), the position allocator that    *)
(* sizes a signal (allocator/position_allocator.py), the order executor    *)
(* that fills it (execution/order_executor.py) and the orchestrator that   *)
(* drives the three (main.py), together with what the orchestrator leans   *)
(* on: the trade store (utils/trade_storage.py), the backtest loop         *)
(* (backtesting/backtest_engine.py) and the price feed with its            *)
(* reconnection logic (data/websocket_client.py).                          *)
(*                                                                         *)
(* Numbers.  Prices are whole dollars, sizes are counted in hundredths of  *)
(* a unit and money is counted in 1e-5 dollars, so that price * size and   *)
(* the 0.1% fee on it are both integers:                                   *)
(*     entry_cost = price * size * 1000      entry_fee = price * size      *)
(* Percent comparisons a / b * 100 >= c are cross-multiplied to            *)
(* a * 100 >= c * b (b > 0), which is the same comparison over the reals.  *)
(* Time.  can_open_position reads the clock only to ask whether the UTC    *)
(* date of now is later than that of daily_start_time; date_advanced is    *)
(* that comparison.  The wall-clock stamps open_time, close_time and       *)
(* duration of a record are not modelled.                                  *)
(***************************************************************************)
EXTENDS Integers, Sequences, FiniteSets, TLC

\* ---- configuration of the ledger under analysis ------------------------
InitialCapital == 10000000      \* initial_capital = 100.0 dollars
MaxDrawdownPct == 5             \* max_drawdown_pct = 5.0
MaxDailyLossPct == 2            \* max_daily_loss_pct = 2.0
MaxDailyTrades == 2             \* max_daily_trades
FeeRateDen == 1000              \* fee_rate = 0.001 = 1 / FeeRateDen
CostUnit == 1000                \* money units in price * size

\* ---- bound of the exploration ------------------------------------------
MaxOpens == 2                   \* open_position calls that return True

Symbols == {"BTCUSDT", "ETHUSDT"}
Prices == {95, 100, 105}
GatePrices == {95, 250}
\* exit prices of the ledger exploration: a loss and a gain for a long
ExitPrices == {100, 105}
CloseReasons == {"Manual"}
NoPrice == 0

Request(action, size, entry_price, stop_loss, take_profit) ==
    [action |-> action, size |-> size, entry_price |-> entry_price,
     stop_loss |-> stop_loss, take_profit |-> take_profit]

\* position requests handed to open_position: the test suite's long (size
\* 0.1 at 100), a small short (size 0.02), a large long (size 0.5) and a
\* long that no capital reached here can afford (size 1.0)
Requests ==
    {Request("LONG", 10, 100, 95, 105), Request("SHORT", 2, 100, 105, 95),
     Request("LONG", 50, 105, 95, 105), Request("LONG", 100, 100, 95, 105)}

\* requests of the stop-loss/take-profit checks: a long and a short with
\* the stop on the losing side, and a long and a short whose stop and
\* target are both crossed at 100
TriggerRequests ==
    {Request("LONG", 10, 100, 95, 105), Request("SHORT", 10, 100, 105, 95),
     Request("LONG", 1, 100, 105, 95), Request("SHORT", 1, 100, 95, 105)}

\* current_prices argument: a price per symbol, NoPrice where the dict has
\* no entry; the all-NoPrice map is the call without prices.  One price for
\* every symbol, or a price for one symbol only.
PriceMaps ==
    {[s \in Symbols |-> p] : p \in GatePrices \cup {NoPrice}}
        \cup {[s \in Symbols |-> IF s = "BTCUSDT" THEN NoPrice ELSE 250]}
NoPrices == [s \in Symbols |-> NoPrice]
NoPositions == [s \in {} |-> NoPrice]

VARIABLES
    current_capital,    \* RiskManager.current_capital
    peak_capital,       \* RiskManager.peak_capital
    open_positions,     \* RiskManager.open_positions: symbol -> position
    trade_history,      \* RiskManager.trade_history
    date_advanced,      \* now.date() > RiskManager.daily_start_time.date()
    daily_trades,       \* RiskManager.daily_trades
    daily_pnl,          \* RiskManager.daily_pnl
    opened,             \* number of open_position calls that returned True
    opened_today,       \* those of them made on the current UTC date
    last,               \* the last call: operation, arguments read, result
    signal_task,        \* main thread inside open_position
    monitor_task,       \* monitor thread inside close_position
    allocator_capital,      \* PositionAllocator.current_capital
    max_position_size_pct,  \* PositionAllocator.max_position_size_pct
    sized,              \* the calculate_position_size call made last, if
                        \* any since the mirror was written
    config,             \* the engine and its trading/exchange configuration
    paper_trading,      \* OrderExecutor.paper_trading
    rest_client,        \* OrderExecutor.rest_client
    place_order_calls,  \* calls of rest_client.place_order so far
    execution,          \* the last execute_order / close_order call
    trades,             \* TradeStorage.trades
    live_price,         \* WebSocketClient.price_cache: symbol -> price
    run,                \* BacktestEngine.run: its symbol, the candles
                        \* processed, the last close, and whether it returned
    is_running,         \* WebSocketClient.is_running
    is_connected,       \* WebSocketClient.is_connected
    reconnect_attempts, \* WebSocketClient.reconnect_attempts
    ws,                 \* WebSocketClient.ws: the socket held, 0 for None
    sockets,            \* every WebSocketApp created so far and its state
    reconnecting,       \* per socket thread: its place in _on_close and
                        \* _reconnect, and the attempts it read
    connection_attempts,    \* _connect calls of _reconnect since the last
                            \* _on_open
    limit_reached       \* _reconnect gave up since the last start()

ledger == <<current_capital, peak_capital, open_positions, trade_history,
            date_advanced, daily_trades, daily_pnl>>
tasks == <<signal_task, monitor_task>>
allocator == <<allocator_capital, max_position_size_pct, sized>>
executor == <<config, paper_trading, rest_client, place_order_calls,
              execution>>
storage == <<trades>>
client == <<is_running, is_connected, reconnect_attempts, ws, sockets,
            reconnecting, connection_attempts, limit_reached>>
environment == <<live_price, run, client>>
collaborators == <<allocator, executor, storage, environment>>
vars == <<current_capital, peak_capital, open_positions, trade_history,
          date_advanced, daily_trades, daily_pnl, opened, opened_today, last,
          signal_task, monitor_task, allocator_capital,
          max_position_size_pct, sized, config, paper_trading, rest_client,
          place_order_calls, execution, trades, live_price, run,
          is_running, is_connected, reconnect_attempts, ws, sockets,
          reconnecting, connection_attempts, limit_reached>>

Idle == [pc |-> "idle"]

\* the record of a call: prices holds the prices the call read, by symbol
Call(op, symbol, prices, ret) ==
    [op |-> op, symbol |-> symbol, prices |-> prices, ret |-> ret,
     capital_before |-> current_capital]

Bool(b) == IF b THEN "True" ELSE "False"

\* ---- pure helpers ------------------------------------------------------
FeePercent(value) == value \div 100
Fee(value) == value \div FeeRateDen

RECURSIVE SumOver(_, _)
SumOver(S, f) ==
    IF S = {} THEN 0
    ELSE LET x == CHOOSE y \in S : TRUE IN f[x] + SumOver(S \ {x}, f)

UnrealizedPnl(position, current_price) ==
    IF position.action = "LONG"
    THEN (current_price - position.entry_price) * position.size * CostUnit
    ELSE IF position.action = "SHORT"
    THEN (position.entry_price - current_price) * position.size * CostUnit
    ELSE 0

CapitalOnlyEquity(current_prices) == current_capital
CalculateCurrentEquity(current_prices) ==
    current_capital +
    SumOver(DOMAIN open_positions,
            [s \in DOMAIN open_positions |->
                UnrealizedPnl(open_positions[s],
                              IF current_prices[s] # NoPrice
                              THEN current_prices[s]
                              ELSE open_positions[s].entry_price)])

KeepPeak(peak, value) == peak
OverwritePeak(peak, value) == value
RatchetPeak(peak, value) == IF value > peak THEN value ELSE peak

DailyTradesExceeded == daily_trades > MaxDailyTrades
DailyTradesReached == daily_trades >= MaxDailyTrades

DailyLossReached ==
    /\ daily_pnl < 0
    /\ InitialCapital > 0
    /\ (0 - daily_pnl) * 100 >= MaxDailyLossPct * InitialCapital

\* can_open_position as a function of the state: its result and the values
\* of the four fields it may write.
GateClearsCounters(ret, peak) ==
    [ret |-> ret, peak_capital |-> peak, date_advanced |-> date_advanced,
     daily_trades |-> 0, daily_pnl |-> 0]
Gate(ret, peak) ==
    [ret |-> ret, peak_capital |-> peak, date_advanced |-> date_advanced,
     daily_trades |-> daily_trades, daily_pnl |-> daily_pnl]

CanOpen(current_prices) ==
    LET current_equity == CalculateCurrentEquity(current_prices)
        peak == RatchetPeak(peak_capital, current_equity)
    IN  IF peak <= 0 THEN Gate(FALSE, peak)
        ELSE IF (peak - current_equity) * 100 >= MaxDrawdownPct * peak
        THEN Gate(FALSE, peak)
        ELSE IF DailyLossReached THEN Gate(FALSE, peak)
        ELSE IF DailyTradesReached THEN Gate(FALSE, peak)
        ELSE IF date_advanced
        THEN [ret |-> TRUE, peak_capital |-> peak, date_advanced |-> FALSE,
              daily_trades |-> 0, daily_pnl |-> 0]
        ELSE Gate(TRUE, peak)

NeverOpen(symbol) == FALSE
AlreadyOpen(symbol) == symbol \in DOMAIN open_positions

AlwaysAffordable(total_entry_cost) == TRUE
Affordable(total_entry_cost) == ~(current_capital < total_entry_cost)

KeepPosition(symbol) == open_positions
PopPosition(symbol) ==
    [s \in DOMAIN open_positions \ {symbol} |-> open_positions[s]]

CheckStrictly(symbol, current_price) ==
    IF symbol \notin DOMAIN open_positions THEN "None"
    ELSE LET position == open_positions[symbol] IN
        IF position.action = "LONG"
        THEN IF current_price < position.stop_loss THEN "stop_loss"
             ELSE IF current_price > position.take_profit THEN "take_profit"
             ELSE "None"
        ELSE IF position.action = "SHORT"
        THEN IF current_price > position.stop_loss THEN "stop_loss"
             ELSE IF current_price < position.take_profit THEN "take_profit"
             ELSE "None"
        ELSE "None"
CheckStopLossTakeProfit(symbol, current_price) ==
    IF symbol \notin DOMAIN open_positions THEN "None"
    ELSE LET position == open_positions[symbol] IN
        IF position.action = "LONG"
        THEN IF current_price <= position.stop_loss THEN "stop_loss"
             ELSE IF current_price >= position.take_profit THEN "take_profit"
             ELSE "None"
        ELSE IF position.action = "SHORT"
        THEN IF current_price >= position.stop_loss THEN "stop_loss"
             ELSE IF current_price <= position.take_profit THEN "take_profit"
             ELSE "None"
        ELSE "None"

\* the position open_position stores for a request
Position(request) ==
    LET entry_cost == request.entry_price * request.size * CostUnit
    IN  [action |-> request.action, size |-> request.size,
         entry_price |-> request.entry_price,
         stop_loss |-> request.stop_loss,
         take_profit |-> request.take_profit,
         entry_cost |-> entry_cost, entry_fee |-> Fee(entry_cost)]

\* the trade record close_position builds for a position and an exit price
TradeBeforeEntryFee(symbol, position, exit_price, reason) ==
    LET size == position.size
        entry_price == position.entry_price
        gross_pnl == IF position.action = "LONG"
                     THEN (exit_price - entry_price) * size * CostUnit
                     ELSE IF position.action = "SHORT"
                     THEN (entry_price - exit_price) * size * CostUnit
                     ELSE 0
        exit_fee == Fee(exit_price * size * CostUnit)
    IN  [symbol |-> symbol, action |-> position.action, size |-> size,
         entry_price |-> entry_price, exit_price |-> exit_price,
         gross_pnl |-> gross_pnl, entry_fee |-> position.entry_fee,
         exit_fee |-> exit_fee, fees |-> position.entry_fee + exit_fee,
         net_pnl |-> gross_pnl - exit_fee, pnl |-> gross_pnl - exit_fee,
         reason |-> reason]
Trade(symbol, position, exit_price, reason) ==
    LET size == position.size
        entry_price == position.entry_price
        gross_pnl == IF position.action = "LONG"
                     THEN (exit_price - entry_price) * size * CostUnit
                     ELSE IF position.action = "SHORT"
                     THEN (entry_price - exit_price) * size * CostUnit
                     ELSE 0
        entry_fee == position.entry_fee
        exit_proceeds == exit_price * size * CostUnit
        exit_fee == Fee(exit_proceeds)
        net_pnl == exit_proceeds - position.entry_cost - entry_fee - exit_fee
    IN  [symbol |-> symbol, action |-> position.action, size |-> size,
         entry_price |-> entry_price, exit_price |-> exit_price,
         gross_pnl |-> gross_pnl, entry_fee |-> entry_fee,
         exit_fee |-> exit_fee, fees |-> entry_fee + exit_fee,
         net_pnl |-> net_pnl, pnl |-> net_pnl, reason |-> reason]

\* ---- the position allocator (allocator/position_allocator.py) ----------
\* Percentages are counted in tenths of a percent and confidences in tenths.
\* A size is a float in the code; here it is kept to hundredths of a unit
\* and an amount to 1e-5 dollars, and a quotient or product that falls
\* between two such values is rounded to the nearest one, as a binary64
\* operation rounds to the nearest double.
MaxPositionSizePct == 10        \* max_position_size_pct = 1.0
NoSize == 0 - 1                 \* calculate_position_size returned None

Min(a, b) == IF a < b THEN a ELSE b
Max(a, b) == IF a > b THEN a ELSE b
RoundDiv(a, b) ==
    IF b > 0 THEN (2 * a + b) \div (2 * b)
    ELSE (0 - 2 * a - b) \div (0 - 2 * b)

Signal(action, confidence, entry_price, stop_loss, take_profit) ==
    [action |-> action, confidence |-> confidence,
     entry_price |-> entry_price, stop_loss |-> stop_loss,
     take_profit |-> take_profit]

AbsoluteRisk(action, entry_price, stop_loss) ==
    IF entry_price > stop_loss THEN entry_price - stop_loss
    ELSE stop_loss - entry_price
RiskPerUnit(action, entry_price, stop_loss) ==
    IF action = "LONG" THEN entry_price - stop_loss
    ELSE stop_loss - entry_price

\* base_risk_pct of a confidence, in tenths of a percent
InverseRiskPct(confidence) ==
    Max(1, Min((max_position_size_pct * 5)
                   \div (IF confidence <= 0 THEN 5 ELSE confidence),
               max_position_size_pct))
BaseRiskPct(confidence) ==
    LET normalized == IF confidence <= 0 THEN 5 ELSE confidence
    IN  Max(1, Min((max_position_size_pct * normalized) \div 5,
                   max_position_size_pct))

UncappedSize(position_size, max_position_size) == position_size
CapSize(position_size, max_position_size) ==
    Min(position_size, max_position_size)

\* the adaptive minimum position value: 20, 0.05, 0.5 and 0.10 dollars
NoMinimum(max_position_value) == 0
SmallCapitalMinimum(max_position_value) ==
    Max(RoundDiv(max_position_value, 2), 5000)
MinPositionValue(max_position_value) ==
    IF allocator_capital < 2000000
    THEN Max(RoundDiv(max_position_value, 2), 5000)
    ELSE Max(Min(RoundDiv(allocator_capital * 5, 100), 50000), 10000)

CalculatePositionSize(signal, current_price) ==
    LET action == signal.action
        entry_price == signal.entry_price
        risk_per_unit == RiskPerUnit(action, entry_price, signal.stop_loss)
        base_risk_pct == BaseRiskPct(signal.confidence)
        risk_amount == RoundDiv(allocator_capital * base_risk_pct, 1000)
        max_position_value ==
            RoundDiv(allocator_capital * max_position_size_pct, 1000)
        max_position_size ==
            RoundDiv(max_position_value, entry_price * CostUnit)
        position_size ==
            CapSize(RoundDiv(risk_amount, risk_per_unit * CostUnit),
                    max_position_size)
        position_value == position_size * entry_price * CostUnit
        min_position_value == MinPositionValue(max_position_value)
        tolerance == RoundDiv(min_position_value, 1000)
    IN  IF action = "FLAT" THEN NoSize
        ELSE IF action \notin {"LONG", "SHORT"} THEN NoSize
        ELSE IF risk_per_unit <= 0 THEN NoSize
        ELSE IF allocator_capital <= 0 THEN NoSize
        ELSE IF entry_price = 0 THEN NoSize     \* ZeroDivisionError, caught
        ELSE IF position_value < min_position_value - tolerance THEN NoSize
        ELSE IF position_size < 1 THEN NoSize   \* below 0.000001 units
        ELSE IF position_value <= 0 THEN NoSize
        ELSE position_size

NotSized == [signal |-> Signal("FLAT", 0, 0, 0, 0), capital |-> 0,
             ret |-> NoSize]

\* ---- the order executor (execution/order_executor.py) ------------------
\* slippage_pct is a constructor argument; the executor is constructed here
\* with 1 percent, so that the slipped prices of 100 are whole dollars.
SlippagePct == 1
SlippageDen == 100
Slippages == (0 - SlippagePct) .. SlippagePct   \* random.uniform(-pct, pct)
ExecutorFeeRateDen == 1000                      \* fee_rate = 0.001

Engines == {"TradingBot", "BacktestEngine"}
\* trading.paper_trading, exchange.name and the presence of the API keys
Configs ==
    [engine : Engines, paper_trading : BOOLEAN,
     exchange_name : {"bybit", "binance"}, api_keys : BOOLEAN]
DefaultConfig ==
    [engine |-> "TradingBot", paper_trading |-> TRUE,
     exchange_name |-> "bybit", api_keys |-> FALSE]
NoExchangeConfig == [exchange_name |-> "", api_keys |-> FALSE]

\* the paper_trading argument the engine hands to OrderExecutor
ConfiguredMode(cfg) == cfg.paper_trading
PaperTradingMode(cfg) ==
    IF cfg.engine = "TradingBot" THEN TRUE ELSE cfg.paper_trading

\* the exchange_config argument: the bot passes it in real mode only, the
\* backtest never
ExchangeConfig(cfg) ==
    IF cfg.engine = "TradingBot" /\ ~PaperTradingMode(cfg)
    THEN [exchange_name |-> cfg.exchange_name, api_keys |-> cfg.api_keys]
    ELSE NoExchangeConfig

\* OrderExecutor.__init__: rest_client after construction
InitializeRealTrading(exchange_config) ==
    IF ~exchange_config.api_keys THEN "None"
    ELSE IF exchange_config.exchange_name = "bybit" THEN "BybitRESTClient"
    ELSE "None"
RestClient(cfg) ==
    IF PaperTradingMode(cfg) THEN "None"
    ELSE InitializeRealTrading(ExchangeConfig(cfg))

ExecutorFeeDouble(value) == (2 * value) \div ExecutorFeeRateDen
ExecutorFee(value) == value \div ExecutorFeeRateDen

\* executed_price = price * (1 + slippage)
SlippedUp(price, slippage) ==
    RoundDiv(price * (SlippageDen + SlippagePct), SlippageDen)
SlippedTwice(price, slippage) ==
    RoundDiv(price * (SlippageDen + 2 * slippage), SlippageDen)
Slipped(price, slippage) ==
    RoundDiv(price * (SlippageDen + slippage), SlippageDen)

NoExecution ==
    [op |-> "-", symbol |-> "-", size |-> 0, desired_price |-> 0,
     fallback_price |-> 0, ret |-> "None", executed_price |-> 0,
     slippage |-> 0, fees |-> 0, total_cost |-> 0, real_trading |-> FALSE]

\* the execution dictionary of a fill of size at price
Execution(op, symbol, size, desired_price, fallback_price, price, slippage, real_trading) ==
    LET executed_price == Slipped(price, slippage)
        fees == ExecutorFee(executed_price * size * CostUnit)
    IN  [op |-> op, symbol |-> symbol, size |-> size,
         desired_price |-> desired_price, fallback_price |-> fallback_price,
         ret |-> "execution", executed_price |-> executed_price,
         slippage |-> slippage, fees |-> fees,
         total_cost |-> executed_price * size * CostUnit + fees,
         real_trading |-> real_trading]

Rejected(op, symbol, size, desired_price, fallback_price) ==
    [NoExecution EXCEPT !.op = op, !.symbol = symbol, !.size = size,
                        !.desired_price = desired_price,
                        !.fallback_price = fallback_price]

\* execute_order as a function of its arguments, the slippage drawn and the
\* answer of the exchange: the execution and the place_order calls made
ExecuteOrderResult(symbol, action, size, entry_price, fallback_price, slippage, order_ok) ==
    LET price == IF entry_price <= 0 THEN fallback_price ELSE entry_price
        none == Rejected("execute_order", symbol, size, entry_price,
                         fallback_price)
    IN  IF ~paper_trading
        THEN IF rest_client = "None" THEN [execution |-> none, placed |-> 0]
             ELSE IF price <= 0 THEN [execution |-> none, placed |-> 0]
             ELSE IF ~order_ok THEN [execution |-> none, placed |-> 1]
             ELSE [execution |->
                     Execution("execute_order", symbol, size, entry_price,
                               fallback_price, price, 0, TRUE),
                   placed |-> 1]
        ELSE IF price <= 0 THEN [execution |-> none, placed |-> 0]
        ELSE [execution |->
                Execution("execute_order", symbol, size, entry_price,
                          fallback_price, price, slippage, FALSE),
              placed |-> 0]

CloseOrderResult(symbol, position, exit_price, slippage, order_ok) ==
    LET none == Rejected("close_order", symbol, position.size, exit_price,
                         NoPrice)
    IN  IF exit_price <= 0 THEN [execution |-> none, placed |-> 0]
        ELSE IF ~paper_trading
        THEN IF rest_client = "None" THEN [execution |-> none, placed |-> 0]
             ELSE IF ~order_ok THEN [execution |-> none, placed |-> 1]
             ELSE [execution |->
                     Execution("close_order", symbol, position.size,
                               exit_price, NoPrice, exit_price, 0, TRUE),
                   placed |-> 1]
        ELSE [execution |->
                Execution("close_order", symbol, position.size, exit_price,
                          NoPrice, exit_price, slippage, FALSE),
              placed |-> 0]

\* ---- the ledger's operations, one call each ----------------------------
InitLedger ==
    /\ current_capital = InitialCapital
    /\ peak_capital = InitialCapital
    /\ open_positions = NoPositions
    /\ trade_history = <<>>
    /\ date_advanced = FALSE
    /\ daily_trades = 0
    /\ daily_pnl = 0
    /\ opened = 0
    /\ opened_today = 0
    /\ last = [op |-> "init", symbol |-> "-", prices |-> NoPositions,
               ret |-> "-", capital_before |-> InitialCapital]
    /\ signal_task = Idle
    /\ monitor_task = Idle

\* PositionAllocator.__init__ with the ledger's initial capital
InitAllocator ==
    /\ allocator_capital = InitialCapital
    /\ max_position_size_pct = MaxPositionSizePct
    /\ sized = NotSized

\* OrderExecutor.__init__ as the engine of cfg constructs it
InitExecutor(cfg) ==
    /\ config = cfg
    /\ paper_trading = PaperTradingMode(cfg)
    /\ rest_client = RestClient(cfg)
    /\ place_order_calls = 0
    /\ execution = NoExecution

\* TradeStorage.__init__ without a trades.json to load
InitStorage == trades = <<>>

\* the price feed before the first update: every symbol at 100
InitFeed == live_price = [s \in Symbols |-> 100]

\* no backtest is running
NoRun == [pc |-> "none", symbol |-> "-", i |-> 0, close |-> NoPrice]

\* WebSocketClient.__init__; max_reconnect_attempts is 10 in the source and
\* MaxReconnectAttempts here
MaxReconnectAttempts == 2
MaxSockets == 4                 \* WebSocketApp objects created
SocketIds == 1 .. MaxSockets
NoSocket == 0
NotReconnecting == [pc |-> "-", attempts |-> 0]
InitClient ==
    /\ is_running = FALSE
    /\ is_connected = FALSE
    /\ reconnect_attempts = 0
    /\ ws = NoSocket
    /\ sockets = [s \in SocketIds |-> "unborn"]
    /\ reconnecting = [s \in SocketIds |-> NotReconnecting]
    /\ connection_attempts = 0
    /\ limit_reached = FALSE

InitEnvironment == InitFeed /\ run = NoRun /\ InitClient

Init ==
    /\ InitLedger
    /\ InitAllocator
    /\ InitExecutor(DefaultConfig)
    /\ InitStorage
    /\ InitEnvironment

CanOpenPosition(current_prices) ==
    LET g == CanOpen(current_prices) IN
    /\ peak_capital' = g.peak_capital
    /\ date_advanced' = g.date_advanced
    /\ daily_trades' = g.daily_trades
    /\ daily_pnl' = g.daily_pnl
    /\ last' = Call("can_open_position", "-",
                    [s \in DOMAIN open_positions |-> current_prices[s]],
                    Bool(g.ret))
    /\ UNCHANGED <<current_capital, open_positions, trade_history,
                   opened, opened_today>>

OpenPosition(symbol, request) ==
    LET g == CanOpen(NoPrices)
        position == Position(request)
        total_entry_cost == position.entry_cost + position.entry_fee
        ok == /\ g.ret
              /\ ~AlreadyOpen(symbol)
              /\ Affordable(total_entry_cost)
    IN
    /\ opened < MaxOpens
    /\ peak_capital' = g.peak_capital
    /\ date_advanced' = g.date_advanced
    /\ daily_pnl' = g.daily_pnl
    /\ IF ok
       THEN /\ current_capital' = current_capital - total_entry_cost
            /\ open_positions' =
                 [s \in DOMAIN open_positions \cup {symbol} |->
                    IF s = symbol THEN position ELSE open_positions[s]]
            /\ daily_trades' = g.daily_trades + 1
            /\ opened' = opened + 1
            /\ opened_today' = opened_today + 1
       ELSE /\ daily_trades' = g.daily_trades
            /\ UNCHANGED <<current_capital, open_positions, opened,
                           opened_today>>
    /\ last' = Call("open_position", symbol, NoPositions, Bool(ok))
    /\ UNCHANGED trade_history

\* close_position for a symbol without a position: logs and returns None
NotFoundRecordsTrade(symbol) ==
    /\ last' = Call("close_position", symbol, NoPositions, "None")
    /\ trade_history' = Append(trade_history, [symbol |-> symbol])
    /\ UNCHANGED <<current_capital, peak_capital, open_positions,
                   date_advanced, daily_trades, daily_pnl, opened,
                   opened_today>>
NotFound(symbol) ==
    /\ last' = Call("close_position", symbol, NoPositions, "None")
    /\ UNCHANGED <<ledger, opened, opened_today>>

ClosePosition(symbol, exit_price, reason) ==
    IF symbol \notin DOMAIN open_positions
    THEN NotFound(symbol)
    ELSE LET trade == Trade(symbol, open_positions[symbol], exit_price, reason)
             credited == current_capital
                         + (exit_price * trade.size * CostUnit - trade.exit_fee)
         IN
         /\ open_positions' = PopPosition(symbol)
         /\ current_capital' = credited
         /\ peak_capital' = RatchetPeak(peak_capital, credited)
         /\ daily_pnl' = daily_pnl + trade.net_pnl
         /\ trade_history' = Append(trade_history, trade)
         /\ last' = Call("close_position", symbol, NoPositions, "trade")
         /\ UNCHANGED <<date_advanced, daily_trades, opened, opened_today>>

CheckTrigger(symbol, current_price) ==
    /\ last' = Call("check_stop_loss_take_profit", symbol,
                    [s \in {symbol} |-> current_price],
                    CheckStopLossTakeProfit(symbol, current_price))
    /\ UNCHANGED <<ledger, opened, opened_today>>

\* get_open_positions, get_trade_history, get_current_capital,
\* get_current_equity, get_total_pnl, get_drawdown_pct: reads only
Accessors ==
    /\ last' = Call("accessor", "-", NoPositions, "-")
    /\ UNCHANGED <<ledger, opened, opened_today>>

\* the UTC date advances past midnight
Midnight ==
    /\ date_advanced' = TRUE
    /\ opened_today' = 0
    /\ last' = Call("midnight", "-", NoPositions, "-")
    /\ UNCHANGED <<current_capital, peak_capital, open_positions,
                   trade_history, daily_trades, daily_pnl, opened>>

\* a call of the ledger leaves the tasks, the allocator and the executor
\* alone
Framed(call) == call /\ UNCHANGED <<tasks, collaborators>>

Next ==
    \/ \E current_prices \in PriceMaps :
            Framed(CanOpenPosition(current_prices))
    \/ \E symbol \in Symbols, request \in Requests :
            Framed(OpenPosition(symbol, request))
    \/ \E symbol \in Symbols, exit_price \in ExitPrices, reason \in CloseReasons :
            Framed(ClosePosition(symbol, exit_price, reason))
    \/ Framed(Accessors)
    \/ Framed(Midnight)

Spec == Init /\ [][Next]_vars

\* the ledger with the monitor's stop-loss/take-profit checks
NextTrigger ==
    \/ \E symbol \in Symbols, request \in TriggerRequests :
            Framed(OpenPosition(symbol, request))
    \/ \E symbol \in Symbols, exit_price \in Prices, reason \in CloseReasons :
            Framed(ClosePosition(symbol, exit_price, reason))
    \/ \E symbol \in Symbols, current_price \in Prices :
            Framed(CheckTrigger(symbol, current_price))

SpecTrigger == Init /\ [][NextTrigger]_vars

\* ---- the ledger called with non-positive sizes and prices ---------------
\* a negative size, a zero size, a zero price and a negative price, next to
\* the test suite's long
MalformedRequests ==
    {Request("LONG", 0 - 10, 100, 95, 105), Request("SHORT", 0, 100, 105, 95),
     Request("LONG", 10, 0, 95, 105), Request("LONG", 10, 0 - 100, 95, 105),
     Request("LONG", 10, 100, 95, 105)}
MalformedExitPrices == {0 - 5, 0, 100}

NextMalformed ==
    \/ \E symbol \in Symbols, request \in MalformedRequests :
            Framed(OpenPosition(symbol, request))
    \/ \E symbol \in Symbols, exit_price \in MalformedExitPrices,
          reason \in CloseReasons :
            Framed(ClosePosition(symbol, exit_price, reason))

SpecMalformed == Init /\ [][NextMalformed]_vars

\* ---- the two tasks of the orchestrator on the shared ledger -------------
\* The trading loop (main thread) runs open_position and the monitor thread
\* runs close_position on the same RiskManager, with no lock.  Each
\* augmented assignment to current_capital is a read followed by a write,
\* and the other thread may run in between.

\* trading loop: a signal for a symbol without a position reaches
\* open_position, which checks the gates, the duplicate and the capital
SignalEnter(symbol, request) ==
    LET g == CanOpen(NoPrices)
        position == Position(request)
        total_entry_cost == position.entry_cost + position.entry_fee
        ok == /\ g.ret
              /\ ~AlreadyOpen(symbol)
              /\ Affordable(total_entry_cost)
    IN
    /\ signal_task.pc = "idle"
    /\ opened < MaxOpens
    /\ symbol \notin DOMAIN open_positions
    /\ peak_capital' = g.peak_capital
    /\ date_advanced' = g.date_advanced
    /\ daily_trades' = g.daily_trades
    /\ daily_pnl' = g.daily_pnl
    /\ IF ok
       THEN /\ signal_task' = [pc |-> "load", symbol |-> symbol,
                               position |-> position,
                               total_entry_cost |-> total_entry_cost]
            /\ UNCHANGED last
       ELSE /\ last' = Call("open_position", symbol, NoPositions, "False")
            /\ UNCHANGED signal_task
    /\ UNCHANGED <<current_capital, open_positions, trade_history, opened,
                   opened_today, monitor_task,
                   collaborators>>

\* self.current_capital -= total_entry_cost: the read
SignalLoad ==
    /\ signal_task.pc = "load"
    /\ signal_task' = [pc |-> "store", symbol |-> signal_task.symbol,
                       position |-> signal_task.position,
                       value |-> current_capital
                                 - signal_task.total_entry_cost]
    /\ UNCHANGED <<ledger, opened, opened_today, last, monitor_task,
                   collaborators>>

\* self.current_capital -= total_entry_cost: the write
SignalStore ==
    /\ signal_task.pc = "store"
    /\ current_capital' = signal_task.value
    /\ signal_task' = [pc |-> "insert", symbol |-> signal_task.symbol,
                       position |-> signal_task.position]
    /\ UNCHANGED <<peak_capital, open_positions, trade_history,
                   date_advanced, daily_trades, daily_pnl, opened,
                   opened_today, last, monitor_task,
                   collaborators>>

\* the position is stored and the daily count incremented
SignalInsert ==
    /\ signal_task.pc = "insert"
    /\ open_positions' =
         [s \in DOMAIN open_positions \cup {signal_task.symbol} |->
            IF s = signal_task.symbol THEN signal_task.position
            ELSE open_positions[s]]
    /\ daily_trades' = daily_trades + 1
    /\ opened' = opened + 1
    /\ opened_today' = opened_today + 1
    /\ last' = Call("open_position", signal_task.symbol, NoPositions, "True")
    /\ signal_task' = Idle
    /\ UNCHANGED <<current_capital, peak_capital, trade_history,
                   date_advanced, daily_pnl, monitor_task,
                   collaborators>>

\* monitor: a live price triggers the stop or the target of an open
\* position; close_position pops the position and computes the trade
MonitorEnter(symbol, current_price) ==
    /\ monitor_task.pc = "idle"
    /\ symbol \in DOMAIN open_positions
    /\ CheckStopLossTakeProfit(symbol, current_price) # "None"
    /\ monitor_task' =
         [pc |-> "load",
          trade |-> Trade(symbol, open_positions[symbol], current_price,
                          CheckStopLossTakeProfit(symbol, current_price))]
    /\ open_positions' = PopPosition(symbol)
    /\ UNCHANGED <<current_capital, peak_capital, trade_history,
                   date_advanced, daily_trades, daily_pnl, opened,
                   opened_today, last, signal_task,
                   collaborators>>

\* self.current_capital += exit_proceeds - exit_fee: the read
MonitorLoad ==
    /\ monitor_task.pc = "load"
    /\ monitor_task' =
         [pc |-> "store", trade |-> monitor_task.trade,
          value |-> current_capital
                    + (monitor_task.trade.exit_price * monitor_task.trade.size
                         * CostUnit
                       - monitor_task.trade.exit_fee)]
    /\ UNCHANGED <<ledger, opened, opened_today, last, signal_task,
                   collaborators>>

\* self.current_capital += exit_proceeds - exit_fee: the write
MonitorStore ==
    /\ monitor_task.pc = "store"
    /\ current_capital' = monitor_task.value
    /\ monitor_task' = [pc |-> "record", trade |-> monitor_task.trade]
    /\ UNCHANGED <<peak_capital, open_positions, trade_history,
                   date_advanced, daily_trades, daily_pnl, opened,
                   opened_today, last, signal_task,
                   collaborators>>

\* the peak is ratcheted, the daily PnL updated and the trade appended
MonitorRecord ==
    /\ monitor_task.pc = "record"
    /\ peak_capital' = RatchetPeak(peak_capital, current_capital)
    /\ daily_pnl' = daily_pnl + monitor_task.trade.net_pnl
    /\ trade_history' = Append(trade_history, monitor_task.trade)
    /\ last' = Call("close_position", monitor_task.trade.symbol, NoPositions,
                    "trade")
    /\ monitor_task' = Idle
    /\ UNCHANGED <<current_capital, open_positions, date_advanced,
                   daily_trades, opened, opened_today, signal_task,
                   collaborators>>

NextTasks ==
    \/ \E symbol \in Symbols, request \in Requests :
            SignalEnter(symbol, request)
    \/ SignalLoad
    \/ SignalStore
    \/ SignalInsert
    \/ \E symbol \in Symbols, current_price \in Prices :
            MonitorEnter(symbol, current_price)
    \/ MonitorLoad
    \/ MonitorStore
    \/ MonitorRecord

SpecTasks == Init /\ [][NextTasks]_vars

\* ---- the allocator on its own ------------------------------------------
\* capital mirrors of -1, 0, 10 and 100 dollars; caps of 0.5, 1 and 10 percent
SizerCapitals == {0 - 100000, 0, 1000000, 10000000}
SizerPcts == {5, 10, 100}
Confidences == {0, 1, 5, 9, 10}
EntryPrices == {0, 3, 6, 100}
StopPrices == {4, 5, 7, 95, 105}
SizerSignals ==
    {Signal(action, confidence, entry_price, stop_loss, entry_price) :
        action \in {"LONG", "SHORT", "FLAT"}, confidence \in Confidences,
        entry_price \in EntryPrices, stop_loss \in StopPrices}

InitSizer ==
    /\ InitLedger
    /\ allocator_capital \in SizerCapitals
    /\ max_position_size_pct \in SizerPcts
    /\ sized = NotSized
    /\ InitExecutor(DefaultConfig)
    /\ InitStorage
    /\ InitEnvironment

\* calculate_position_size(signal, current_price)
SizePosition(signal, current_price) ==
    /\ sized' = [signal |-> signal, capital |-> allocator_capital,
                 ret |-> CalculatePositionSize(signal, current_price)]
    /\ UNCHANGED <<allocator_capital, max_position_size_pct>>

\* update_capital(capital)
UpdateCapital(capital) ==
    /\ allocator_capital' = capital
    /\ sized' = NotSized
    /\ UNCHANGED max_position_size_pct

NextSizer ==
    \/ \E signal \in SizerSignals :
            /\ SizePosition(signal, signal.entry_price)
            /\ UNCHANGED <<ledger, opened, opened_today, last, tasks,
                           executor, storage, environment>>
    \/ \E capital \in SizerCapitals :
            /\ UpdateCapital(capital)
            /\ UNCHANGED <<ledger, opened, opened_today, last, tasks,
                           executor, storage, environment>>

SpecSizer == InitSizer /\ [][NextSizer]_vars

\* ---- the allocator around its minimum position value -------------------
\* capital mirrors of 0.90, 19.99, 20, 30, 49.95 and 100 dollars
FloorCapitals == {90000, 1999000, 2000000, 3000000, 4995000, 10000000}

InitFloor ==
    /\ InitLedger
    /\ allocator_capital \in FloorCapitals
    /\ max_position_size_pct \in SizerPcts
    /\ sized = NotSized
    /\ InitExecutor(DefaultConfig)
    /\ InitStorage
    /\ InitEnvironment

NextFloor ==
    \/ \E signal \in SizerSignals :
            /\ SizePosition(signal, signal.entry_price)
            /\ UNCHANGED <<ledger, opened, opened_today, last, tasks,
                           executor, storage, environment>>
    \/ \E capital \in FloorCapitals :
            /\ UpdateCapital(capital)
            /\ UNCHANGED <<ledger, opened, opened_today, last, tasks,
                           executor, storage, environment>>

SpecFloor == InitFloor /\ [][NextFloor]_vars

\* ---- the executor on its own, as each engine constructs it -------------
MaxPlaceOrders == 2             \* place_order calls explored
FillSizes == {1, 10}
DesiredPrices == {0 - 100, 0, 100, 200}
FallbackPrices == {NoPrice, 100}
ClosedPositions == {Position(request) : request \in Requests}

InitEngines ==
    /\ InitLedger
    /\ InitAllocator
    /\ \E cfg \in Configs : InitExecutor(cfg)
    /\ InitStorage
    /\ InitEnvironment

\* execute_order(symbol, action, size, entry_price, fallback_price)
ExecuteOrder(symbol, action, size, entry_price, fallback_price, slippage, order_ok) ==
    LET result == ExecuteOrderResult(symbol, action, size, entry_price,
                                     fallback_price, slippage, order_ok)
    IN  /\ place_order_calls < MaxPlaceOrders
        /\ execution' = result.execution
        /\ place_order_calls' = place_order_calls + result.placed
        /\ UNCHANGED <<config, paper_trading, rest_client>>

\* close_order(symbol, position, exit_price)
CloseOrder(symbol, position, exit_price, slippage, order_ok) ==
    LET result == CloseOrderResult(symbol, position, exit_price, slippage,
                                   order_ok)
    IN  /\ place_order_calls < MaxPlaceOrders
        /\ execution' = result.execution
        /\ place_order_calls' = place_order_calls + result.placed
        /\ UNCHANGED <<config, paper_trading, rest_client>>

NextEngines ==
    \/ \E symbol \in Symbols, action \in {"LONG", "SHORT"},
          size \in FillSizes, entry_price \in DesiredPrices,
          fallback_price \in FallbackPrices, slippage \in Slippages,
          order_ok \in BOOLEAN :
            /\ ExecuteOrder(symbol, action, size, entry_price,
                            fallback_price, slippage, order_ok)
            /\ UNCHANGED <<ledger, opened, opened_today, last, tasks,
                           allocator, storage, environment>>
    \/ \E symbol \in Symbols, position \in ClosedPositions,
          exit_price \in DesiredPrices, slippage \in Slippages,
          order_ok \in BOOLEAN :
            /\ CloseOrder(symbol, position, exit_price, slippage, order_ok)
            /\ UNCHANGED <<ledger, opened, opened_today, last, tasks,
                           allocator, storage, environment>>

SpecEngines == InitEngines /\ [][NextEngines]_vars

\* ---- the executor constructed directly, real-order mode included --------
\* OrderExecutor(paper_trading, slippage_pct, exchange_config) as a caller
\* other than the two engines constructs it
DirectConfigs ==
    [engine : {"OrderExecutor"}, paper_trading : BOOLEAN,
     exchange_name : {"bybit", "binance"}, api_keys : BOOLEAN]

InitDirect ==
    /\ InitLedger
    /\ InitAllocator
    /\ \E cfg \in DirectConfigs :
            /\ config = cfg
            /\ paper_trading = cfg.paper_trading
            /\ rest_client =
                 IF cfg.paper_trading THEN "None"
                 ELSE InitializeRealTrading(
                          [exchange_name |-> cfg.exchange_name,
                           api_keys |-> cfg.api_keys])
            /\ place_order_calls = 0
            /\ execution = NoExecution
    /\ InitStorage
    /\ InitEnvironment

SpecDirect == InitDirect /\ [][NextEngines]_vars

\* ---- the price feed's connection (data/websocket_client.py) ------------
\* Every WebSocketApp runs in a thread of its own, and the library calls
\* _on_open and _on_close in that thread; _on_close calls _reconnect, so a
\* reconnection runs in the thread of the socket that closed.  start() and
\* stop() are called from the main thread.  The sleeps of the source are
\* the points at which another thread may run.  A failed connection is
\* reported as a close.  _on_error only clears is_connected, which the
\* _on_close that follows does again.
Alive == {"connecting", "open", "closing"}

\* ws.close() on the socket held: its thread will deliver _on_close
CloseSocket(socket) ==
    IF socket # NoSocket /\ sockets[socket] \in {"connecting", "open"}
    THEN [sockets EXCEPT ![socket] = "closing"]
    ELSE sockets

\* _connect: a new WebSocketApp, started in its thread
NewSocket == CHOOSE s \in SocketIds :
                 sockets[s] = "unborn" /\ \A t \in 1 .. s - 1 : sockets[t] # "unborn"
CanConnect == \E s \in SocketIds : sockets[s] = "unborn"

ClientStep == UNCHANGED <<ledger, opened, opened_today, last, tasks, allocator, executor, storage, live_price, run>>

\* start()
Start ==
    /\ ~is_running
    /\ CanConnect
    /\ is_running' = TRUE
    /\ ws' = NewSocket
    /\ sockets' = [sockets EXCEPT ![NewSocket] = "connecting"]
    /\ limit_reached' = FALSE
    /\ UNCHANGED <<is_connected, reconnect_attempts, reconnecting,
                   connection_attempts>>
    /\ ClientStep

\* stop(); _reconnect_timer is None, there is nothing to cancel
Stop ==
    /\ is_running' = FALSE
    /\ sockets' = CloseSocket(ws)
    /\ is_connected' = FALSE
    /\ UNCHANGED <<reconnect_attempts, ws, reconnecting,
                   connection_attempts, limit_reached>>
    /\ ClientStep

\* _on_open in the thread of socket
OnOpen(socket) ==
    /\ sockets[socket] = "connecting"
    /\ sockets' = [sockets EXCEPT ![socket] = "open"]
    /\ is_connected' = TRUE
    /\ reconnect_attempts' = 0
    /\ connection_attempts' = 0
    /\ UNCHANGED <<is_running, ws, reconnecting, limit_reached>>
    /\ ClientStep

\* _on_close in the thread of socket, up to its sleep before _reconnect
OnClose(socket) ==
    /\ sockets[socket] \in Alive
    /\ sockets' = [sockets EXCEPT ![socket] = "closed"]
    /\ is_connected' = FALSE
    /\ reconnecting' =
         [reconnecting EXCEPT ![socket].pc =
              IF is_running THEN "reconnect" ELSE "returned"]
    /\ UNCHANGED <<is_running, reconnect_attempts, ws, connection_attempts,
                   limit_reached>>
    /\ ClientStep

\* _reconnect, its two guards
ReconnectEnter(socket) ==
    /\ reconnecting[socket].pc = "reconnect"
    /\ IF ~is_running
       THEN /\ reconnecting' = [reconnecting EXCEPT ![socket].pc = "returned"]
            /\ UNCHANGED <<is_running, limit_reached>>
       ELSE IF reconnect_attempts >= MaxReconnectAttempts
       THEN /\ is_running' = FALSE
            /\ limit_reached' = TRUE
            /\ reconnecting' = [reconnecting EXCEPT ![socket].pc = "returned"]
       ELSE /\ reconnecting' = [reconnecting EXCEPT ![socket].pc = "load"]
            /\ UNCHANGED <<is_running, limit_reached>>
    /\ UNCHANGED <<is_connected, reconnect_attempts, ws, sockets,
                   connection_attempts>>
    /\ ClientStep

\* reconnect_attempts += 1 is a read and a write; no lock is held
ReconnectLoad(socket) ==
    /\ reconnecting[socket].pc = "load"
    /\ reconnecting' =
         [reconnecting EXCEPT
             ![socket] = [pc |-> "increment",
                          attempts |-> reconnect_attempts]]
    /\ UNCHANGED <<is_running, is_connected, reconnect_attempts, ws,
                   sockets, connection_attempts, limit_reached>>
    /\ ClientStep

ReconnectIncrement(socket) ==
    /\ reconnecting[socket].pc = "increment"
    /\ reconnect_attempts' = reconnecting[socket].attempts + 1
    /\ reconnecting' =
         [reconnecting EXCEPT ![socket] = [pc |-> "wait", attempts |-> 0]]
    /\ UNCHANGED <<is_running, is_connected, ws, sockets,
                   connection_attempts, limit_reached>>
    /\ ClientStep

\* the backoff wait is over: the last test of is_running
ReconnectWait(socket) ==
    /\ reconnecting[socket].pc = "wait"
    /\ reconnecting' =
         [reconnecting EXCEPT ![socket].pc =
              IF is_running THEN "close" ELSE "returned"]
    /\ UNCHANGED <<is_running, is_connected, reconnect_attempts, ws,
                   sockets, connection_attempts, limit_reached>>
    /\ ClientStep

\* with self.lock: the socket held is closed and dropped
ReconnectClose(socket) ==
    /\ reconnecting[socket].pc = "close"
    /\ is_connected' = FALSE
    /\ sockets' = CloseSocket(ws)
    /\ ws' = NoSocket
    /\ reconnecting' = [reconnecting EXCEPT ![socket].pc = "connect"]
    /\ UNCHANGED <<is_running, reconnect_attempts, connection_attempts,
                   limit_reached>>
    /\ ClientStep

\* _connect() up to its sleep
ReconnectConnect(socket) ==
    /\ reconnecting[socket].pc = "connect"
    /\ CanConnect
    /\ ws' = NewSocket
    /\ sockets' = [sockets EXCEPT ![NewSocket] = "connecting"]
    /\ connection_attempts' = connection_attempts + 1
    /\ reconnecting' = [reconnecting EXCEPT ![socket].pc = "connected"]
    /\ UNCHANGED <<is_running, is_connected, reconnect_attempts,
                   limit_reached>>
    /\ ClientStep

\* _connect() returned is_connected.  On success the attempts are reset.
\* Otherwise, while running, the timer test reads is_alive of
\* _reconnect_timer, which is None: the AttributeError ends the call and no
\* timer is ever started.
ReconnectResult(socket) ==
    /\ reconnecting[socket].pc = "connected"
    /\ reconnect_attempts' = IF is_connected THEN 0 ELSE reconnect_attempts
    /\ reconnecting' =
         [reconnecting EXCEPT ![socket].pc =
              IF is_connected \/ ~is_running THEN "returned" ELSE "raised"]
    /\ UNCHANGED <<is_running, is_connected, ws, sockets,
                   connection_attempts, limit_reached>>
    /\ ClientStep

NextClient ==
    \/ Start
    \/ Stop
    \/ \E socket \in SocketIds :
            \/ OnOpen(socket)
            \/ OnClose(socket)
            \/ ReconnectEnter(socket)
            \/ ReconnectLoad(socket)
            \/ ReconnectIncrement(socket)
            \/ ReconnectWait(socket)
            \/ ReconnectClose(socket)
            \/ ReconnectConnect(socket)
            \/ ReconnectResult(socket)

SpecClient == Init /\ [][NextClient]_vars

\* ---- the orchestrator: signal -> size -> fill -> ledger ----------------
\* The handlers of main.py run one after the other here: _execute_signal up
\* to the fill, then its open_position call, and one iteration of
\* _monitor_positions for a position whose stop or target is crossed.
BotSignals ==
    {Signal("LONG", 5, 100, 95, 105), Signal("SHORT", 9, 100, 105, 95),
     Signal("LONG", 5, 100, 105, 110)}
BotPrices == {95, 100, 105}
BotPriceMaps == [Symbols -> BotPrices]

\* _execute_signal(symbol, signal, market_data) up to execute_order
ExecuteSignal(symbol, signal, current_prices, slippage) ==
    LET current_price == current_prices[symbol]
        position_size == CalculatePositionSize(signal, current_price)
        estimated_entry_price ==
            IF signal.entry_price <= 0 THEN current_price
            ELSE signal.entry_price
        estimated_position_value ==
            position_size * estimated_entry_price * CostUnit
        estimated_total_cost ==
            estimated_position_value + estimated_position_value \div 1000
        current_equity == CalculateCurrentEquity(current_prices)
        simulated_equity_after_position ==
            current_equity - estimated_total_cost
        exceeds ==
            /\ peak_capital > 0
            /\ (peak_capital - simulated_equity_after_position) * 1000
                 >= (MaxDrawdownPct * 10 - 1) * peak_capital
        g == CanOpen(current_prices)
        result == ExecuteOrderResult(symbol, signal.action, position_size,
                                     signal.entry_price, current_price,
                                     slippage, TRUE)
    IN
    /\ signal_task.pc = "idle"
    /\ monitor_task.pc = "idle"
    /\ opened < MaxOpens
    /\ symbol \notin DOMAIN open_positions
    /\ signal.action # "FLAT"
    /\ sized' = [signal |-> signal, capital |-> allocator_capital,
                 ret |-> position_size]
    /\ IF \/ position_size = NoSize
          \/ position_size <= 0
          \/ current_capital < estimated_total_cost
          \/ exceeds
       THEN UNCHANGED <<ledger, last, signal_task, execution>>
       ELSE /\ peak_capital' = g.peak_capital
            /\ date_advanced' = g.date_advanced
            /\ daily_trades' = g.daily_trades
            /\ daily_pnl' = g.daily_pnl
            /\ last' = Call("can_open_position", "-",
                            [s \in DOMAIN open_positions |->
                                current_prices[s]],
                            Bool(g.ret))
            /\ UNCHANGED <<current_capital, open_positions, trade_history>>
            /\ IF ~g.ret
               THEN UNCHANGED <<signal_task, execution>>
               ELSE /\ execution' = result.execution
                    /\ signal_task' =
                         IF result.execution.ret = "None" THEN Idle
                         ELSE [pc |-> "open", symbol |-> symbol,
                               request |->
                                 Request(signal.action, position_size,
                                         result.execution.executed_price,
                                         signal.stop_loss,
                                         signal.take_profit)]
    /\ UNCHANGED <<opened, opened_today, monitor_task, allocator_capital,
                   max_position_size_pct, config, paper_trading, rest_client,
                   place_order_calls, storage, environment>>

\* _execute_signal: risk_manager.open_position(symbol, position)
OpenFilled ==
    /\ signal_task.pc = "open"
    /\ OpenPosition(signal_task.symbol, signal_task.request)
    /\ signal_task' = Idle
    /\ UNCHANGED <<monitor_task, collaborators>>

\* _monitor_positions, one position of the pass: a price that triggers the
\* stop or the target: close_order and close_position
MonitorPosition(symbol, current_price, slippage) ==
    LET position == open_positions[symbol]
        trigger == CheckStopLossTakeProfit(symbol, current_price)
        result == CloseOrderResult(symbol, position, current_price, slippage,
                                   TRUE)
    IN
    /\ signal_task.pc = "idle"
    /\ monitor_task.pc = "idle"
    /\ symbol \in DOMAIN open_positions
    /\ current_price > 0
    /\ ~(/\ position.entry_price > 0
         /\ 2 * (IF current_price > position.entry_price
                 THEN current_price - position.entry_price
                 ELSE position.entry_price - current_price)
              > position.entry_price)
    /\ trigger # "None"
    /\ result.execution.ret = "execution"
    /\ execution' = result.execution
    /\ ClosePosition(symbol, result.execution.executed_price, trigger)
    /\ monitor_task' =
         [pc |-> "save",
          trade |-> Trade(symbol, position, result.execution.executed_price,
                          trigger)]
    /\ UNCHANGED <<signal_task, allocator, config, paper_trading,
                   rest_client, place_order_calls, storage, environment>>

\* TradeStorage.add_trade: the dict it is handed gets a timestamp key
\* unless it has one
Stamped(trade) ==
    IF "timestamp" \in DOMAIN trade THEN trade
    ELSE trade @@ [timestamp |-> "now"]

\* _monitor_positions, the rest of the pass for a closed position:
\* trade_storage.add_trade(trade), where trade is the dict close_position
\* appended to trade_history and returned, then update_capital
SaveTrade ==
    /\ monitor_task.pc = "save"
    /\ trade_history' =
         [trade_history EXCEPT ![Len(trade_history)] = Stamped(@)]
    /\ trades' = Append(trades, Stamped(monitor_task.trade))
    /\ UpdateCapital(current_capital)
    /\ monitor_task' = Idle
    /\ UNCHANGED <<current_capital, peak_capital, open_positions,
                   date_advanced, daily_trades, daily_pnl, opened,
                   opened_today, last, signal_task, executor, environment>>

NextBot ==
    \/ \E symbol \in Symbols, signal \in BotSignals,
          current_prices \in BotPriceMaps, slippage \in Slippages :
            ExecuteSignal(symbol, signal, current_prices, slippage)
    \/ OpenFilled
    \/ \E symbol \in Symbols, current_price \in BotPrices,
          slippage \in Slippages :
            MonitorPosition(symbol, current_price, slippage)
    \/ SaveTrade

SpecBot == Init /\ [][NextBot]_vars

\* ---- the monitor on the live price feed --------------------------------
\* The monitor reads the last price the feed delivered for a symbol.  The
\* feed delivers a price half the entry and less, a price at the stop of
\* the long and one at its target.
FeedPrices == {40, 95, 105}

\* WebSocketClient: a ticker message stores the price of its symbol
PriceUpdate(symbol, price) ==
    /\ live_price' = [live_price EXCEPT ![symbol] = price]
    /\ UNCHANGED <<ledger, opened, opened_today, last, tasks, allocator,
                   executor, storage, run, client>>

\* one position of a monitoring pass, at the price get_price returns
MonitorPass(symbol) ==
    \E slippage \in Slippages :
        MonitorPosition(symbol, live_price[symbol], slippage)

NextMonitor ==
    \/ \E symbol \in Symbols, signal \in BotSignals :
            ExecuteSignal(symbol, signal, live_price, 0)
    \/ OpenFilled
    \/ \E symbol \in Symbols, price \in FeedPrices :
            PriceUpdate(symbol, price)
    \/ \E symbol \in Symbols : MonitorPass(symbol)
    \/ SaveTrade

\* the monitor thread runs a pass every 5 seconds over every open position,
\* so that a position whose pass can close it again and again is closed by
\* one of them; a handler that has started runs to its end
SpecMonitor ==
    /\ Init
    /\ [][NextMonitor]_vars
    /\ \A symbol \in Symbols : SF_vars(MonitorPass(symbol))
    /\ WF_vars(SaveTrade)
    /\ WF_vars(OpenFilled)

\* ---- the backtest (backtesting/backtest_engine.py) ----------------------
\* BacktestEngine.run(symbol) walks the candles in order.  A candle is its
\* close price; the signal of a candle is what the strategies return for it.
MaxCandles == 3                 \* candles processed by a run
CandleCloses == {0, 95, 100, 105}
NoSignal == Signal("FLAT", 0, 0, 0, 0)

InitBacktest ==
    /\ InitLedger
    /\ InitAllocator
    /\ \E cfg \in Configs :
            /\ cfg.engine = "BacktestEngine"
            /\ cfg.exchange_name = "bybit" /\ ~cfg.api_keys
            /\ InitExecutor(cfg)
    /\ InitStorage
    /\ InitFeed
    /\ InitClient
    /\ \E symbol \in Symbols :
            run = [pc |-> "running", symbol |-> symbol, i |-> 0,
                   close |-> NoPrice]

\* the candle is the last one processed so far
NextCandle(close) == [run EXCEPT !.i = @ + 1, !.close = close]

\* a candle while the run's symbol has a position: the stop and the target
\* are checked at the close, and the candle generates no signal
CandleHeld(close, slippage) ==
    LET symbol == run.symbol
        position == open_positions[symbol]
        trigger == CheckStopLossTakeProfit(symbol, close)
        result == CloseOrderResult(symbol, position, close, slippage, TRUE)
    IN
    /\ run.pc = "running"
    /\ run.i < MaxCandles
    /\ symbol \in DOMAIN open_positions
    /\ run' = NextCandle(close)
    /\ IF trigger = "None"
       THEN UNCHANGED <<ledger, opened, opened_today, last, allocator,
                        executor>>
       ELSE /\ execution' = result.execution
            /\ place_order_calls' = place_order_calls + result.placed
            /\ UNCHANGED <<config, paper_trading, rest_client>>
            /\ IF result.execution.ret = "None"
               THEN UNCHANGED <<ledger, opened, opened_today, last,
                                allocator>>
               ELSE /\ ClosePosition(symbol,
                                     result.execution.executed_price, trigger)
                    /\ UpdateCapital(current_capital')
    /\ UNCHANGED <<tasks, storage, live_price, client>>

\* a candle while the run's symbol has no position: a signal that is not
\* FLAT goes through can_open_position, calculate_position_size,
\* execute_order and open_position
CandleFlat(close, signal, slippage) ==
    LET symbol == run.symbol
        g == CanOpen(NoPrices)
        position_size == CalculatePositionSize(signal, close)
        result == ExecuteOrderResult(symbol, signal.action, position_size,
                                     signal.entry_price, close, slippage,
                                     TRUE)
        sizing == [signal |-> signal, capital |-> allocator_capital,
                   ret |-> position_size]
    IN
    /\ run.pc = "running"
    /\ run.i < MaxCandles
    /\ symbol \notin DOMAIN open_positions
    /\ opened < MaxOpens
    /\ run' = NextCandle(close)
    /\ IF signal.action = "FLAT"
       THEN UNCHANGED <<ledger, opened, opened_today, last, allocator,
                        executor>>
       ELSE IF ~g.ret
       THEN /\ CanOpenPosition(NoPrices)
            /\ UNCHANGED <<allocator, executor>>
       ELSE IF position_size = NoSize \/ position_size <= 0
       THEN /\ CanOpenPosition(NoPrices)
            /\ sized' = sizing
            /\ UNCHANGED <<allocator_capital, max_position_size_pct,
                           executor>>
       ELSE /\ sized' = sizing
            /\ execution' = result.execution
            /\ place_order_calls' = place_order_calls + result.placed
            /\ UNCHANGED <<allocator_capital, max_position_size_pct, config,
                           paper_trading, rest_client>>
            /\ IF result.execution.ret = "None"
               THEN CanOpenPosition(NoPrices)
               ELSE OpenPosition(symbol,
                                 Request(signal.action, position_size,
                                         result.execution.executed_price,
                                         signal.stop_loss,
                                         signal.take_profit))
    /\ UNCHANGED <<tasks, storage, live_price, client>>

\* the positions the end of the run closes: those of the run's symbol
NoneOpen(symbol) == {}
StillOpen(symbol) == {symbol} \cap DOMAIN open_positions

\* the end of run: every position still open for the symbol is closed at
\* the fill close_order returns for the close of the last candle
Finish(slippage) ==
    LET symbol == run.symbol
        position == open_positions[symbol]
        result == CloseOrderResult(symbol, position, run.close, slippage,
                                   TRUE)
    IN
    /\ run.pc = "running"
    /\ run.i >= 1
    /\ run' = [run EXCEPT !.pc = "returned"]
    /\ IF StillOpen(symbol) = {}
       THEN UNCHANGED <<ledger, opened, opened_today, last, executor>>
       ELSE /\ execution' = result.execution
            /\ place_order_calls' = place_order_calls + result.placed
            /\ UNCHANGED <<config, paper_trading, rest_client>>
            /\ IF result.execution.ret = "None"
               THEN UNCHANGED <<ledger, opened, opened_today, last>>
               ELSE ClosePosition(symbol, result.execution.executed_price,
                                  "Backtest end")
    /\ UNCHANGED <<tasks, allocator, storage, live_price, client>>

NextBacktest ==
    \/ \E close \in CandleCloses, slippage \in Slippages :
            CandleHeld(close, slippage)
    \/ \E close \in CandleCloses, signal \in BotSignals \cup {NoSignal},
          slippage \in Slippages :
            CandleFlat(close, signal, slippage)
    \/ \E slippage \in Slippages : Finish(slippage)

SpecBacktest == InitBacktest /\ [][NextBacktest]_vars

\* ---- the ledger with a realized gain next to committed capital ---------
\* a long that commits 4.004 dollars, one that commits 5.005 dollars and
\* one that commits 2.002 dollars; exits at the entry and 30 percent above
CommittedRequests ==
    {Request("LONG", 4, 100, 95, 130), Request("LONG", 5, 100, 95, 130),
     Request("LONG", 2, 100, 95, 130)}
CommittedExits == {100, 130}

NextCommitted ==
    \/ Framed(CanOpenPosition(NoPrices))
    \/ \E current_price \in CommittedExits :
            Framed(CanOpenPosition([s \in Symbols |-> current_price]))
    \/ \E symbol \in Symbols, request \in CommittedRequests :
            Framed(OpenPosition(symbol, request))
    \/ \E symbol \in Symbols, exit_price \in CommittedExits,
          reason \in CloseReasons :
            Framed(ClosePosition(symbol, exit_price, reason))
    \/ Framed(Midnight)

SpecCommitted == Init /\ [][NextCommitted]_vars

\* ---- properties --------------------------------------------------------
LastTrade(history) == history[Len(history)]

\* the gates of can_open_position called without prices, where equity is
\* current_capital
GatePassesWithoutPrices ==
    /\ peak_capital > 0
    /\ (peak_capital - current_capital) * 100 < MaxDrawdownPct * peak_capital
    /\ ~(daily_pnl < 0
         /\ (0 - daily_pnl) * 100 >= MaxDailyLossPct * InitialCapital)
    /\ daily_trades < MaxDailyTrades

\* equity as section 4.1 defines it, at the prices a call read
EquityAt(prices) ==
    current_capital +
    SumOver(DOMAIN open_positions,
            [s \in DOMAIN open_positions |->
                LET position == open_positions[s] IN
                IF prices[s] = NoPrice THEN 0
                ELSE IF position.action = "LONG"
                THEN (prices[s] - position.entry_price) * position.size * 1000
                ELSE (position.entry_price - prices[s]) * position.size * 1000])

\* what C1 says of a successful open_position(symbol, s, p) directly
\* followed by close_position(symbol, x): the debit, the credit, the
\* recorded net_pnl and the capital after the round trip
RoundTrip(final_capital) ==
    (/\ last.op = "open_position" /\ last.ret = "True"
     /\ last'.op = "close_position" /\ last'.ret = "trade"
     /\ last'.symbol = last.symbol)
    => LET position == open_positions[last.symbol]
           trade == LastTrade(trade_history')
           p == position.entry_price
           s == position.size
           x == trade.exit_price
       IN  /\ current_capital = last.capital_before - (p * s * 1000 + p * s)
           /\ current_capital' = current_capital + (x * s * 1000 - x * s)
           /\ trade.entry_fee = p * s
           /\ trade.exit_fee = x * s
           /\ trade.net_pnl = (x * s * 1000 - trade.exit_fee)
                              - (p * s * 1000 + trade.entry_fee)
           /\ current_capital' = last.capital_before + trade.net_pnl
           /\ (/\ last.capital_before = 10000000 /\ position.action = "LONG"
               /\ s = 10 /\ p = 100 /\ x = 105)
              => /\ current_capital = 8999000
                 /\ trade.net_pnl = 47950
                 /\ current_capital' = final_capital

\* C1 as stated: the open debits p*s + p*s*0.001, the close credits
\* x*s - x*s*0.001, net_pnl = (x*s - exit_fee) - (p*s + entry_fee) and
\* current_capital ends at its value before the open plus net_pnl; with
\* capital 100, a long of 0.1 at 100 closed at 105 gives 89.99 after the
\* open, a net_pnl of 0.4795 and 100.4695 after the close.
C1_Original == [][RoundTrip(10046950)]_vars

\* C1 amended: the same, with 100.4795 after the close of the instance.
C1_RoundTrip == [][RoundTrip(10047950)]_vars

C1_Witness ==
    /\ last.op = "close_position" /\ last.ret = "trade"
    /\ Len(trade_history) = 1
    /\ trade_history[1].action = "LONG" /\ trade_history[1].size = 10
    /\ trade_history[1].entry_price = 100 /\ trade_history[1].exit_price = 105
    /\ last.capital_before = 8999000
    /\ trade_history[1].net_pnl = 47950
    /\ current_capital = 10047950

\* C2 as stated: open_position for a symbol that already has an open
\* position returns false and leaves the whole ledger state unchanged,
\* the daily counters and the daily period start included.
C2_Original ==
    [][(last'.op = "open_position" /\ last'.symbol \in DOMAIN open_positions)
       => (last'.ret = "False" /\ UNCHANGED ledger)]_vars

\* C2 amended: open_position for a symbol that already has an open position
\* returns false and leaves current_capital, peak_capital, the open
\* positions and trade_history unchanged; the daily counters and the daily
\* period start are unchanged too, unless the UTC date has advanced past the
\* period start and the gates pass: then the call resets them.
C2_NoDoubleOpen ==
    [][(last'.op = "open_position" /\ last'.symbol \in DOMAIN open_positions)
       => /\ last'.ret = "False"
          /\ UNCHANGED <<current_capital, peak_capital, open_positions,
                         trade_history>>
          /\ IF date_advanced /\ GatePassesWithoutPrices
             THEN ~date_advanced' /\ daily_trades' = 0 /\ daily_pnl' = 0
             ELSE UNCHANGED <<date_advanced, daily_trades, daily_pnl>>]_vars

C2_Witness ==
    /\ last.op = "open_position" /\ last.ret = "False"
    /\ last.symbol \in DOMAIN open_positions
    /\ GatePassesWithoutPrices

\* C3: can_open_position(current_prices) raises peak_capital to the equity
\* (current_capital plus the unrealized PnL at current_prices, zero for a
\* symbol without a price) if that is higher, and returns false whenever
\* (peak_capital - equity) / peak_capital * 100 >= max_drawdown_pct.
C3_EquityDrawdownGate ==
    [][last'.op = "can_open_position"
       => LET equity == EquityAt(last'.prices) IN
          /\ peak_capital' = IF equity > peak_capital
                             THEN equity ELSE peak_capital
          /\ (peak_capital' - equity) * 100 >= MaxDrawdownPct * peak_capital'
             => last'.ret = "False"
          /\ UNCHANGED current_capital]_vars

\* an unrealized loss that alone reaches the threshold blocks the gate while
\* the realized capital is above it
C3_Witness ==
    /\ last.op = "can_open_position" /\ last.ret = "False"
    /\ (current_capital - EquityAt(last.prices)) * 100
         >= MaxDrawdownPct * peak_capital
    /\ GatePassesWithoutPrices

\* C4: open_position rejects before debiting whenever current_capital <
\* entry_price * size * (1 + 0.001); every open_position call that returns
\* false leaves current_capital, open_positions and trade_history
\* unchanged; current_capital >= 0 in every reachable state.
C4_Affordability ==
    [][/\ \A symbol \in Symbols, request \in Requests :
            (/\ OpenPosition(symbol, request)
             /\ current_capital
                  < request.entry_price * request.size * 1001)
            => (last'.ret = "False" /\ current_capital' = current_capital)
       /\ (last'.op = "open_position" /\ last'.ret = "False")
          => UNCHANGED <<current_capital, open_positions, trade_history>>
       /\ current_capital >= 0
       /\ current_capital' >= 0]_vars

\* an open rejected for insufficient capital alone
C4_Witness ==
    /\ last.op = "open_position" /\ last.ret = "False"
    /\ last.symbol \notin DOMAIN open_positions
    /\ GatePassesWithoutPrices
    /\ opened > 0

\* C6: once the UTC date is later than the date of the daily period start,
\* the next can_open_position call that the drawdown gate lets through
\* resets daily_trade_count and daily_realized_pnl to 0 and is not rejected
\* by the daily gates.
C6_DailyReset ==
    [][(/\ date_advanced
        /\ last'.op = "can_open_position"
        /\ LET equity == EquityAt(last'.prices)
               peak == IF equity > peak_capital THEN equity ELSE peak_capital
           IN  peak > 0 /\ (peak - equity) * 100 < MaxDrawdownPct * peak)
       => /\ daily_trades' = 0
          /\ daily_pnl' = 0
          /\ ~date_advanced'
          /\ last'.ret = "True"]_vars

\* C7: a successful close_position removes the symbol's position and
\* appends exactly one ClosedTrade; trade_history is append-only; the
\* number of successful opens is |open_positions| + |trade_history|; per
\* symbol only a successful open adds a position and only a successful
\* close removes it.
C7_Lifecycle ==
    [][/\ (last'.op = "close_position" /\ last'.ret = "trade")
          => /\ last'.symbol \in DOMAIN open_positions
             /\ DOMAIN open_positions'
                  = DOMAIN open_positions \ {last'.symbol}
             /\ Len(trade_history') = Len(trade_history) + 1
             /\ LastTrade(trade_history').symbol = last'.symbol
       /\ (last'.op = "open_position" /\ last'.ret = "True")
          => /\ last'.symbol \notin DOMAIN open_positions
             /\ DOMAIN open_positions'
                  = DOMAIN open_positions \cup {last'.symbol}
             /\ trade_history' = trade_history
       /\ ~(last'.op \in {"open_position", "close_position"}
            /\ last'.ret \in {"True", "trade"})
          => /\ DOMAIN open_positions' = DOMAIN open_positions
             /\ trade_history' = trade_history
       /\ Len(trade_history') >= Len(trade_history)
       /\ SubSeq(trade_history', 1, Len(trade_history)) = trade_history
       /\ opened' = Cardinality(DOMAIN open_positions') + Len(trade_history')
      ]_vars

\* a symbol that went through the cycle twice
C7_Witness ==
    /\ last.op = "close_position" /\ last.ret = "trade"
    /\ Len(trade_history) = 2
    /\ trade_history[1].symbol = trade_history[2].symbol
    /\ open_positions = NoPositions

\* C8: no ledger operation lowers peak_capital.
C8_PeakMonotonic == [][peak_capital' >= peak_capital]_vars

\* the peak raised by an equity above it while capital stays below
C8_Witness ==
    /\ last.op = "can_open_position"
    /\ trade_history = <<>>
    /\ peak_capital > InitialCapital
    /\ current_capital < InitialCapital

\* C9: check_stop_loss_take_profit changes no ledger state; it returns
\* stop_loss iff the symbol has a position and the price is at or beyond its
\* stop (Long: <=, Short: >=), take_profit iff it does not return stop_loss
\* and the price is at or beyond the target (Long: >=, Short: <=), and
\* None otherwise.
C9_TriggerRule ==
    [][last'.op = "check_stop_loss_take_profit"
       => LET symbol == last'.symbol
              price == last'.prices[symbol]
              held == symbol \in DOMAIN open_positions
              position == open_positions[symbol]
              stop == \/ position.action = "LONG"
                         /\ price <= position.stop_loss
                      \/ position.action = "SHORT"
                         /\ price >= position.stop_loss
              target == \/ position.action = "LONG"
                           /\ price >= position.take_profit
                        \/ position.action = "SHORT"
                           /\ price <= position.take_profit
          IN  /\ UNCHANGED ledger
              /\ last'.ret \in {"stop_loss", "take_profit", "None"}
              /\ last'.ret = "stop_loss" <=> (held /\ stop)
              /\ last'.ret = "take_profit" <=> (held /\ ~stop /\ target)
      ]_vars

\* stop and target crossed at once, and the stop reported
C9_Witness ==
    /\ last.op = "check_stop_loss_take_profit" /\ last.ret = "stop_loss"
    /\ last.symbol \in DOMAIN open_positions
    /\ LET position == open_positions[last.symbol]
           price == last.prices[last.symbol]
       IN  /\ position.action = "SHORT"
           /\ price >= position.stop_loss
           /\ price <= position.take_profit

C5_NoLostUpdate ==
    (signal_task.pc = "idle" /\ monitor_task.pc = "idle")
    => current_capital =
         InitialCapital
         - SumOver(DOMAIN open_positions,
                   [s \in DOMAIN open_positions |->
                      open_positions[s].entry_cost
                      + open_positions[s].entry_fee])
         - SumOver(DOMAIN trade_history,
                   [i \in DOMAIN trade_history |->
                      trade_history[i].entry_price * trade_history[i].size
                        * 1000
                      + trade_history[i].entry_fee])
         + SumOver(DOMAIN trade_history,
                   [i \in DOMAIN trade_history |->
                      trade_history[i].exit_price * trade_history[i].size
                        * 1000
                      - trade_history[i].exit_fee])

\* C11: close_position for a symbol with no open position returns None and
\* leaves the ledger unchanged: no capital credit, no peak change, no
\* history entry, daily_pnl unchanged.
C11_CloseUnknown ==
    [][(last'.op = "close_position"
        /\ last'.symbol \notin DOMAIN open_positions)
       => /\ last'.ret = "None"
          /\ UNCHANGED <<current_capital, peak_capital, open_positions,
                         trade_history, date_advanced, daily_trades,
                         daily_pnl>>]_vars

\* a close of a symbol that had a position before and has none now, while
\* another position is open
C11_Witness ==
    /\ last.op = "close_position" /\ last.ret = "None"
    /\ last.symbol \notin DOMAIN open_positions
    /\ open_positions # NoPositions
    /\ \E i \in DOMAIN trade_history : trade_history[i].symbol = last.symbol

\* C12: open_position with size <= 0 or entry_price <= 0 and close_position
\* with exit_price <= 0 fail and leave current_capital, open_positions and
\* trade_history unchanged.
C12_MalformedRejected ==
    [][/\ \A symbol \in Symbols, request \in MalformedRequests :
            (/\ OpenPosition(symbol, request)
             /\ (request.size <= 0 \/ request.entry_price <= 0))
            => /\ last'.ret = "False"
               /\ UNCHANGED <<current_capital, open_positions,
                              trade_history>>
       /\ \A symbol \in Symbols, exit_price \in MalformedExitPrices,
             reason \in CloseReasons :
            (ClosePosition(symbol, exit_price, reason) /\ exit_price <= 0)
            => /\ last'.ret = "None"
               /\ UNCHANGED <<current_capital, open_positions,
                              trade_history>>]_vars

\* the notional value of a size at a price, and the notional cap of a
\* capital mirror, in 1e-5 dollars
Notional(size, entry_price) == size * entry_price * CostUnit
MaxPositionValue(capital) == RoundDiv(capital * max_position_size_pct, 1000)

C14_Rejects ==
    [][(sized' # sized /\ sized' # NotSized)
       => /\ allocator_capital' = allocator_capital
          /\ (\/ sized'.signal.action = "FLAT"
              \/ /\ sized'.signal.action = "LONG"
                 /\ sized'.signal.entry_price - sized'.signal.stop_loss <= 0
              \/ /\ sized'.signal.action = "SHORT"
                 /\ sized'.signal.stop_loss - sized'.signal.entry_price <= 0
              \/ allocator_capital <= 0)
             => sized'.ret = NoSize]_vars

\* a long whose stop lies above its entry, rejected with a positive mirror
C14_Witness ==
    /\ sized.ret = NoSize
    /\ sized.signal.action = "LONG"
    /\ sized.signal.stop_loss > sized.signal.entry_price
    /\ sized.signal.entry_price > 0
    /\ sized.capital > 0

\* the same signal at another confidence
AtConfidence(signal, confidence) ==
    [signal EXCEPT !.confidence = confidence]

\* C15: for two signals that differ in confidence only, c_lo <= c_hi in
\* [0, 1], whenever the c_lo signal is sized the c_hi signal is sized too
\* and its size is at least as large.
C15_Original ==
    \A signal \in SizerSignals, c_hi \in Confidences :
        LET lo == CalculatePositionSize(signal, signal.entry_price)
            hi == CalculatePositionSize(AtConfidence(signal, c_hi),
                                        signal.entry_price)
        IN  (signal.confidence <= c_hi /\ lo # NoSize)
            => (hi # NoSize /\ hi >= lo)

\* C15 amended: the same for 0 < c_lo <= c_hi <= 1; a confidence of 0 is
\* sized as a confidence of 0.5.
C15_Monotonic ==
    \A signal \in SizerSignals, c_hi \in Confidences :
        LET lo == CalculatePositionSize(signal, signal.entry_price)
            hi == CalculatePositionSize(AtConfidence(signal, c_hi),
                                        signal.entry_price)
        IN  /\ (0 < signal.confidence /\ signal.confidence <= c_hi
                /\ lo # NoSize)
               => (hi # NoSize /\ hi >= lo)
            /\ signal.confidence = 0
               => lo = CalculatePositionSize(AtConfidence(signal, 5),
                                             signal.entry_price)

\* a sized signal that a higher confidence sizes strictly larger
C15_Witness ==
    /\ sized.ret # NoSize
    /\ sized.signal.confidence > 0
    /\ \E c_hi \in Confidences :
          /\ c_hi > sized.signal.confidence
          /\ CalculatePositionSize(AtConfidence(sized.signal, c_hi),
                                   sized.signal.entry_price) > sized.ret

\* the adaptive floor of a capital mirror as the claim states it: 20, 0.05,
\* 0.5 and 0.10 dollars
Floor(capital) ==
    IF capital < 2000000
    THEN Max(MaxPositionValue(capital) \div 2, 5000)
    ELSE Max(Min((capital * 5) \div 100, 50000), 10000)

\* C16: calculate_position_size returns None whenever the capped notional
\* is below the adaptive floor by more than 0.1%; every size it returns has
\* a notional >= 0.999 * floor and is at least 1e-6 units.
C16_MinimumNotional ==
    sized.ret # NoSize
    => /\ Notional(sized.ret, sized.signal.entry_price) * 1000
            >= 999 * Floor(sized.capital)
       /\ sized.ret >= 1

\* a signal with a valid stop and a positive mirror, rejected by the floor
C16_Witness ==
    /\ sized.ret = NoSize
    /\ sized.signal.action = "SHORT"
    /\ sized.signal.stop_loss > sized.signal.entry_price
    /\ sized.signal.entry_price > 0
    /\ sized.capital > 0

\* the fill model of a price: the price moved by a slippage within the
\* band, the fee of 0.1% of the filled value and their sum
FillModel(price) ==
    /\ execution.ret = "execution"
    /\ execution.slippage \in (0 - SlippagePct) .. SlippagePct
    /\ execution.executed_price * SlippageDen
         = price * (SlippageDen + execution.slippage)
    /\ execution.fees * 1000
         = execution.executed_price * execution.size * CostUnit
    /\ execution.total_cost
         = execution.executed_price * execution.size * CostUnit
           + execution.fees

\* C18: in simulation mode execute_order with desired_price > 0 fills at
\* desired_price * (1 + slippage), slippage within +-slippage_pct, with fee
\* = filled_price * size * 0.001 and total_cost = filled_price * size + fee;
\* with desired_price <= 0 it fills the fallback_price that way when that is
\* positive and returns None otherwise; close_order returns None whenever
\* desired_price <= 0.
C18_FillModel ==
    /\ (paper_trading /\ execution.op = "execute_order")
       => IF execution.desired_price > 0
          THEN FillModel(execution.desired_price)
          ELSE IF execution.fallback_price > 0
          THEN FillModel(execution.fallback_price)
          ELSE execution.ret = "None"
    /\ (execution.op = "close_order" /\ execution.desired_price <= 0)
       => execution.ret = "None"

\* a simulated fill at the fallback price, slipped upwards
C18_Witness ==
    /\ paper_trading
    /\ execution.op = "execute_order" /\ execution.ret = "execution"
    /\ execution.desired_price <= 0
    /\ execution.executed_price > execution.fallback_price

\* C20: for every value of trading.paper_trading, no run of TradingBot or
\* BacktestEngine ever calls place_order of the exchange REST client.
C20_NeverPlacesOrders == place_order_calls = 0

\* a bot configured for real trading on Bybit with API keys, whose order
\* was filled by the simulation
C20_Witness ==
    /\ config.engine = "TradingBot"
    /\ ~config.paper_trading /\ config.api_keys
    /\ config.exchange_name = "bybit"
    /\ execution.op = "execute_order" /\ execution.ret = "execution"
    /\ ~execution.real_trading

\* C17: after every successful open_position, and in the monitoring pass
\* after every successful close_position, the orchestrator calls
\* update_capital with the ledger's current_capital, so
\* that at every calculate_position_size call the capital mirror equals the
\* ledger's current_capital.
C17_SizerSynchronised ==
    [][/\ (last' # last /\ last'.op = "open_position"
           /\ last'.ret = "True")
          => allocator_capital' = current_capital'
       /\ (monitor_task.pc = "save" /\ monitor_task'.pc = "idle")
          => allocator_capital' = current_capital'
       /\ (sized' # sized /\ sized' # NotSized)
          => sized'.capital = current_capital]_vars

\* C19: when the orchestrator opens or closes a position at the executor's
\* filled price and size, the fee the ledger derives equals the fee the
\* executor reported, and the amount debited on open equals the executor's
\* total_cost.
C19_FeeConsistency ==
    [][/\ (last' # last /\ last'.op = "open_position"
           /\ last'.ret = "True")
          => /\ execution.op = "execute_order"
             /\ open_positions'[last'.symbol].entry_price
                  = execution.executed_price
             /\ open_positions'[last'.symbol].size = execution.size
             /\ open_positions'[last'.symbol].entry_fee = execution.fees
             /\ current_capital - current_capital' = execution.total_cost
       /\ (last' # last /\ last'.op = "close_position"
           /\ last'.ret = "trade")
          => /\ execution'.op = "close_order"
             /\ LastTrade(trade_history').exit_price
                  = execution'.executed_price
             /\ LastTrade(trade_history').size = execution'.size
             /\ LastTrade(trade_history').exit_fee = execution'.fees]_vars

\* a position opened at a slipped fill and closed at a slipped fill
C19_Witness ==
    /\ last.op = "close_position" /\ last.ret = "trade"
    /\ execution.op = "close_order" /\ execution.slippage # 0
    /\ LastTrade(trade_history).entry_price # 100
    /\ LastTrade(trade_history).exit_fee = execution.fees
    /\ LastTrade(trade_history).exit_fee > 0

\* C22: can_open_position, whatever it returns, leaves current_capital,
\* open_positions and trade_history unchanged, changes peak_capital only by
\* raising it to the current equity and changes daily_trades, daily_pnl and
\* the daily period start only by the date-rollover reset; the accessors
\* change nothing.
C22_ReadMostly ==
    [][/\ last'.op = "can_open_position"
          => /\ UNCHANGED <<current_capital, open_positions, trade_history>>
             /\ \/ peak_capital' = peak_capital
                \/ /\ peak_capital' = EquityAt(last'.prices)
                   /\ peak_capital' > peak_capital
             /\ \/ UNCHANGED <<date_advanced, daily_trades, daily_pnl>>
                \/ /\ date_advanced /\ ~date_advanced'
                   /\ daily_trades' = 0 /\ daily_pnl' = 0
       /\ last'.op = "accessor" => UNCHANGED ledger]_vars

\* a call on a new day with one position open and gaining: the counters
\* are reset and the peak is raised to the equity
C22_Witness ==
    /\ last.op = "can_open_position" /\ last.ret = "True"
    /\ ~date_advanced /\ daily_trades = 0 /\ daily_pnl = 0
    /\ opened = 1 /\ trade_history = <<>>
    /\ peak_capital > InitialCapital
    /\ peak_capital = EquityAt(last.prices)

\* C23: a ClosedTrade is never mutated after it is appended to
\* trade_history: no later step of the ledger, of the orchestrator or of
\* TradeStorage.add_trade adds, removes or changes a field of a record held
\* in trade_history.
C23_TradesImmutable ==
    [][\A i \in DOMAIN trade_history :
          trade_history'[i] = trade_history[i]]_vars

\* the stop or the target of the symbol's open position is crossed at the
\* positive price the feed holds for it
Crossed(symbol) ==
    /\ symbol \in DOMAIN open_positions
    /\ live_price[symbol] > 0
    /\ CheckStopLossTakeProfit(symbol, live_price[symbol]) # "None"

\* C21: whenever a monitoring pass obtains a positive live price for an open
\* position and check_stop_loss_take_profit triggers at that price, the pass
\* closes the position; hence a position whose stop-loss or take-profit
\* stays crossed is eventually closed.
C21_TriggeredEventuallyClosed ==
    \A symbol \in Symbols : []<>(~Crossed(symbol))

\* the step in which BacktestEngine.run ends, and what it does to a
\* position still open for the run's symbol: the position is gone, one
\* ClosedTrade with the reason of the forced close is appended, and its
\* exit price is exact(ly the last close) or within the slippage band of it
RunEnds == run.pc = "running" /\ run'.pc = "returned"
ForcedClose(exact) ==
    /\ run.symbol \notin DOMAIN open_positions'
    /\ Len(trade_history') = Len(trade_history) + 1
    /\ SubSeq(trade_history', 1, Len(trade_history)) = trade_history
    /\ LET trade == LastTrade(trade_history') IN
       /\ trade.symbol = run.symbol
       /\ trade.reason = "Backtest end"
       /\ trade.size = open_positions[run.symbol].size
       /\ IF exact THEN trade.exit_price = run.close
          ELSE /\ 2 * (trade.exit_price * SlippageDen
                       - run.close * (SlippageDen + SlippagePct))
                    <= SlippageDen
               /\ 2 * (run.close * (SlippageDen - SlippagePct)
                       - trade.exit_price * SlippageDen)
                    <= SlippageDen

\* C24 as stated: when run finishes, every position still open for the
\* symbol is closed at the last candle's close price: the ledger then holds
\* no open position for the symbol and the position has produced exactly
\* one ClosedTrade.
C24_Original ==
    [][RunEnds
       => IF run.symbol \in DOMAIN open_positions
          THEN ForcedClose(TRUE)
          ELSE UNCHANGED <<open_positions, trade_history>>]_vars

\* C24 amended: when run finishes with a positive last close, every position
\* still open for the symbol is closed at the simulated fill of that close,
\* last close * (1 + slippage) with the slippage within +-slippage_pct; with
\* a last close <= 0 the position stays open and no trade is recorded.
C24_ForcedClose ==
    [][RunEnds
       => IF run.symbol \in DOMAIN open_positions /\ run.close > 0
          THEN ForcedClose(FALSE)
          ELSE UNCHANGED <<open_positions, trade_history>>]_vars

\* a run that ended with a forced close at a slipped price
C24_Witness ==
    /\ run.pc = "returned"
    /\ run.symbol \notin DOMAIN open_positions
    /\ trade_history # <<>>
    /\ LastTrade(trade_history).reason = "Backtest end"
    /\ LastTrade(trade_history).exit_price > run.close

\* the entry costs and entry fees of the positions currently open, and the
\* net PnL of the trades recorded
Committed ==
    SumOver(DOMAIN open_positions,
            [s \in DOMAIN open_positions |->
                open_positions[s].entry_cost + open_positions[s].entry_fee])
RealizedPnl ==
    SumOver(DOMAIN trade_history,
            [i \in DOMAIN trade_history |-> trade_history[i].net_pnl])

\* C26: after any sequence of can_open_position, open_position and
\* close_position calls over any set of symbols, current_capital =
\* initial_capital + the sum of net_pnl over trade_history - the sum of
\* entry_cost + entry_fee over the open positions.
C26_Reconciliation ==
    current_capital = InitialCapital + RealizedPnl - Committed

\* a trade of one symbol recorded while a position of the other is open
C26_Witness ==
    /\ open_positions # NoPositions
    /\ \E i \in DOMAIN trade_history :
          /\ trade_history[i].symbol \notin DOMAIN open_positions
          /\ trade_history[i].net_pnl # 0
    /\ current_capital = InitialCapital + RealizedPnl - Committed

\* C28: in every state reachable through can_open_position, open_position
\* and close_position with positive prices and sizes, peak_capital >=
\* current_capital.
C28_PeakAboveCapital == peak_capital >= current_capital

\* a close that lifted current_capital above the initial capital, and the
\* peak with it
C28_Witness ==
    /\ last.op = "close_position" /\ last.ret = "trade"
    /\ current_capital > InitialCapital
    /\ peak_capital = current_capital

\* the prices a can_open_position call read stand at the entry prices of
\* the open positions, or the call read none
AtEntry(prices) ==
    \A s \in DOMAIN open_positions :
        prices[s] \in {NoPrice, open_positions[s].entry_price}

\* what C27 says of a step: a successful open lowers the equity at
\* unchanged prices by entry_cost + entry_fee, and while the committed cost
\* of the open positions is >= max_drawdown_pct percent of the peak (and
\* the side condition holds) the gate and open_position reject
CommittedBlocks(side_condition) ==
    /\ (last'.op = "open_position" /\ last'.ret = "True")
       => LET position == open_positions'[last'.symbol] IN
          current_capital'
            = current_capital - (position.entry_cost + position.entry_fee)
    /\ (/\ Committed * 100 >= MaxDrawdownPct * peak_capital
        /\ side_condition
        /\ \/ last'.op = "open_position"
           \/ last'.op = "can_open_position" /\ AtEntry(last'.prices))
       => /\ last'.ret = "False"
          /\ UNCHANGED <<current_capital, open_positions>>

\* C27 as stated: right after a successful open_position the equity at
\* unchanged prices is lower by entry_cost + entry_fee; whenever the summed
\* entry_cost + entry_fee of the open positions is >= max_drawdown_pct
\* percent of peak_capital and prices stand at entry, can_open_position and
\* open_position reject every further open, for any symbol.
C27_Original == [][CommittedBlocks(TRUE)]_vars

\* C27 amended: the same, provided that peak_capital >= initial_capital +
\* the sum of net_pnl over trade_history, that is, no realized gain offsets
\* the committed cost below the peak.
C27_CommittedDrawdown ==
    [][CommittedBlocks(peak_capital >= InitialCapital + RealizedPnl)]_vars

\* the gate rejecting at entry prices for the committed cost alone: nothing
\* realized, the daily gates open
C27_Witness ==
    /\ last.op = "can_open_position" /\ last.ret = "False"
    /\ AtEntry(last.prices)
    /\ trade_history = <<>>
    /\ daily_pnl = 0 /\ daily_trades < MaxDailyTrades
    /\ Committed * 100 >= MaxDrawdownPct * peak_capital
    /\ Cardinality(DOMAIN open_positions) = 2


\* the price a call asked for, after the fallback substitution
RequestedPrice(e) ==
    IF e.desired_price <= 0 THEN e.fallback_price ELSE e.desired_price

\* a call of execute_order or close_order in real-order mode whose answer
\* differs from the previous one
RealCall ==
    /\ ~paper_trading
    /\ \/ execution' # execution
       \/ place_order_calls' # place_order_calls

\* the step is a call whose order submission returned no result
SubmissionFailed ==
    \/ \E symbol \in Symbols, action \in {"LONG", "SHORT"},
          size \in FillSizes, entry_price \in DesiredPrices,
          fallback_price \in FallbackPrices :
            /\ ExecuteOrder(symbol, action, size, entry_price,
                            fallback_price, 0, FALSE)
            /\ place_order_calls' = place_order_calls + 1
    \/ \E symbol \in Symbols, position \in ClosedPositions,
          exit_price \in DesiredPrices :
            /\ CloseOrder(symbol, position, exit_price, 0, FALSE)
            /\ place_order_calls' = place_order_calls + 1

\* what C25 says of a real-order call; priced tells which calls without a
\* fill record must still have submitted their one order
RealOrder(priced) ==
    RealCall =>
        LET e == execution'
            price == RequestedPrice(e)
            placed == place_order_calls' - place_order_calls
        IN  /\ rest_client = "None" => (e.ret = "None" /\ placed = 0)
            /\ SubmissionFailed => e.ret = "None"
            /\ (rest_client # "None" /\ (priced => price > 0)) => placed = 1
            /\ (rest_client # "None" /\ price <= 0)
               => (e.ret = "None" /\ placed <= 1)
            /\ e.ret = "execution"
               => /\ placed = 1
                  /\ e.executed_price = price
                  /\ e.slippage = 0
                  /\ e.fees = (price * e.size * CostUnit) \div ExecutorFeeRateDen
                  /\ e.real_trading

\* C25 as stated: outside simulation mode, fill_entry and fill_exit return
\* None without a fill record if no REST client was initialised or if the
\* submission returns no result; otherwise they submit exactly one market
\* order per call and report filled_price = requested price (after
\* fallback), slippage 0 and fee = requested price * size * 0.001.
C25_Original == [][RealOrder(FALSE)]_vars

\* C25 amended: the same, with a third way to return None: a requested price
\* that is not positive after the fallback substitution returns None and
\* submits no order.
C25_RealOrder ==
    [][RealOrder(TRUE) /\ (RealCall /\ RequestedPrice(execution') <= 0
                           => place_order_calls' = place_order_calls)]_vars

\* a real order filled at the fallback price
C25_Witness ==
    /\ ~paper_trading /\ rest_client = "BybitRESTClient"
    /\ execution.ret = "execution" /\ execution.op = "execute_order"
    /\ execution.desired_price <= 0 /\ execution.fallback_price > 0
    /\ execution.executed_price = execution.fallback_price
    /\ place_order_calls = 1


\* max_position_value is below 0.999 times the adaptive floor
DeadZone ==
    LET max_position_value == MaxPositionValue(allocator_capital)
    IN  max_position_value * 1000 < 999 * MinPositionValue(max_position_value)

\* every signal the sizer can be handed is rejected
NothingSized ==
    /\ \A signal \in SizerSignals :
            CalculatePositionSize(signal, signal.entry_price) = NoSize
    /\ sized.ret = NoSize

\* C29: size_position rejects every signal, whatever its action,
\* confidence, entry and stop, whenever max_position_value is below 0.999
\* times the adaptive floor; with max_position_size_pct = 1 and a capital
\* mirror of at least 20 and below 49.95 no signal is ever sized.
C29_DeadZone ==
    /\ DeadZone => NothingSized
    /\ (/\ max_position_size_pct = 10
        /\ allocator_capital >= 2000000
        /\ allocator_capital < 4995000) => NothingSized

\* a long with a valid stop whose capped size is positive, rejected at a
\* mirror of 30 dollars and a cap of 1 percent
C29_Witness ==
    /\ allocator_capital = 3000000 /\ max_position_size_pct = 10
    /\ sized.capital = allocator_capital
    /\ sized.signal.action = "LONG"
    /\ sized.signal.entry_price = 6 /\ sized.signal.stop_loss = 5
    /\ sized.ret = NoSize
    /\ DeadZone


\* the socket threads inside _reconnect, past its two guards
InProgress ==
    {s \in SocketIds :
        reconnecting[s].pc \in {"load", "increment", "wait", "close",
                                "connect", "connected"}}

AttemptsInRange == reconnect_attempts \in 0 .. MaxReconnectAttempts
OneReconnection == Cardinality(InProgress) <= 1
AttemptsBetweenOpens == connection_attempts <= MaxReconnectAttempts
StoppedAtLimit == limit_reached => ~is_running
\* no WebSocketApp is created while the limit stands
NoAttemptAfterLimit ==
    (limit_reached /\ limit_reached')
        => \A s \in SocketIds : sockets[s] = "unborn" => sockets'[s] = "unborn"

\* C30: under any interleaving of close callbacks, reconnect timers and
\* stop(), reconnect_attempts stays within 0..max_reconnect_attempts and at
\* most one reconnection is in progress at a time; between two successful
\* opens at most max_reconnect_attempts connection attempts are made, and
\* once the limit is reached is_running is false and no further connection
\* attempt is made until start() is called again.
C30_BoundedReconnection ==
    /\ [](/\ AttemptsInRange
          /\ OneReconnection
          /\ AttemptsBetweenOpens
          /\ StoppedAtLimit)
    /\ [][NoAttemptAfterLimit]_vars

====
